---- MODULE Spec2Model ----
(***************************************************************************)
(* mc2skos: conversion of MARC21 Classification records to SKOS.           *)
(* The module models src/mc2skos/mc2skos.py: add_record_to_graph,          *)
(* process_record, get_records and main.                                   *)
(*                                                                         *)
(* Python strings are sequences of one-character strings, so that          *)
(* concatenation ('T' + notation) and indexing (leader[6]) are computed.   *)
(* An RDF term is a tagged tuple; a statement is <<subject, predicate,     *)
(* object>>; the graph is a set of statements (rdflib's Graph).            *)
(***************************************************************************)
EXTENDS Integers, Sequences, FiniteSets, TLC

\* ------------------------------------------------------------- bounds
\* Records the input document may hold.
MaxRecords == 2
\* Length of a record's component sequence (765 fields).
MaxComponents == 2
\* Number of entries of a record's scheme_uris.
MaxSchemes == 2
\* Calls of add_record_to_graph on one record object (SpecBuilder).
MaxCalls == 2

\* ------------------------------------------------- values and RDF terms
\* Python's None, comparable with every string of the model.
None == <<"None">>

\* 0-based index of the record-family marker in the leader.
MarkerPos == 6

\* rdflib.URIRef(s): an identifier node.
URIRef(s) == <<"uri", s>>

\* A Python str handed to graph.add as it is, without URIRef().
PlainStr(s) == <<"str", s>>

\* rdflib.Literal(v), Literal(v, lang=l), Literal(v, datatype=XSD.date), Literal(True)
Literal(v) == <<"lit", v>>

LangLiteral(v, l) == <<"langlit", v, l>>

DateLiteral(v) == <<"date", v>>

BoolLiteral(b) == <<"bool", b>>

\* rdflib.BNode(): the k-th anonymous node of the run.
BNode(k) == <<"bnode", k>>

\* Named terms of the vocabularies.
SKOS_Concept == URIRef(<<"skos:Concept">>)

RDF_nil == URIRef(<<"rdf:nil">>)

\* Constants.TABLE_RECORD and the other record type.
TABLE_RECORD == "table"

SCHEDULE_RECORD == "schedule"

\* datetime.strftime('%F'): year-month-day.
strftime_F(d) == <<d[1], "-", d[2], "-", d[3]>>

\* Python truthiness of a str-or-None value (if record.notation:).
Truthy(s) == s # None /\ s # <<>>

Range(s) == {s[i] : i \in 1..Len(s)}

RECURSIVE SeqsUpTo(_, _)
\* The sequences over S of length at most k.
SeqsUpTo(S, k) ==
    IF k = 0 THEN {<<>>}
    ELSE LET shorter == SeqsUpTo(S, k - 1)
         IN  shorter \cup {Append(s, x) : s \in {t \in shorter : Len(t) = k - 1}, x \in S}

\* ------------------------------------------------- the normalized record
\* record.get_uri(collection='class', object=component): the class template
\* with the component substituted.
get_uri(record, component) == record.base_uri \o component

\* ------------------------------------------------- add_record_to_graph
\* graph.add((record_uri, RDF.type, SKOS.Concept))
TypeStatements(record) == {<<URIRef(record.uri), "rdf:type", SKOS_Concept>>}

\* skos:topConceptOf for a top concept, skos:inScheme otherwise
SchemePredicate(record) ==
    IF record.is_top_concept THEN "skos:topConceptOf" ELSE "skos:inScheme"

SchemeStatementsFirstOnly(record) ==
    {<<URIRef(record.uri), SchemePredicate(record), URIRef(record.scheme_uris[i])>> :
        i \in {j \in 1..Len(record.scheme_uris) : j = 1}}

\* for scheme_uri in record.scheme_uris: one membership statement each
SchemeStatements(record) ==
    {<<URIRef(record.uri), SchemePredicate(record), URIRef(record.scheme_uris[i])>> :
        i \in 1..Len(record.scheme_uris)}

\* dcterms:created and dcterms:modified, when present
DateStatements(record) ==
    (IF record.created # None
     THEN {<<URIRef(record.uri), "dcterms:created", DateLiteral(strftime_F(record.created))>>}
     ELSE {})
    \cup
    (IF record.modified # None
     THEN {<<URIRef(record.uri), "dcterms:modified", DateLiteral(strftime_F(record.modified))>>}
     ELSE {})

NotationLiteralNoPrefix(record) == Literal(record.notation)

\* 'T' + notation for a table record, the notation itself otherwise
NotationLiteral(record) ==
    IF record.record_type = TABLE_RECORD
    THEN Literal(<<"T">> \o record.notation)
    ELSE Literal(record.notation)

\* if record.notation: one skos:notation statement
NotationStatements(record) ==
    IF Truthy(record.notation)
    THEN {<<URIRef(record.uri), "skos:notation", NotationLiteral(record)>>}
    ELSE {}

\* if record.prefLabel: skos:prefLabel with the record's language
PrefLabelStatements(record) ==
    IF Truthy(record.prefLabel)
    THEN {<<URIRef(record.uri), "skos:prefLabel", LangLiteral(record.prefLabel, record.lang)>>}
    ELSE {}

\* index terms as skos:altLabel, if include_indexterms
AltLabelStatements(record, options) ==
    IF options.include_indexterms
    THEN {<<URIRef(record.uri), "skos:altLabel", LangLiteral(record.altLabel[i].term, record.lang)>> :
            i \in 1..Len(record.altLabel)}
    ELSE {}

\* skos:broader, one per parent
BroaderStatements(record) ==
    {<<URIRef(record.uri), "skos:broader", URIRef(record.broader[i])>> :
        i \in 1..Len(record.broader)}

NoteStatementsOf(record, predicate, notes) ==
    {<<URIRef(record.uri), predicate, LangLiteral(notes[i], record.lang)>> : i \in 1..Len(notes)}

\* the four kinds of notes, if include_notes
NoteStatements(record, options) ==
    IF options.include_notes
    THEN NoteStatementsOf(record, "skos:definition", record.definition)
         \cup NoteStatementsOf(record, "skos:editorialNote", record.editorialNote)
         \cup NoteStatementsOf(record, "skos:scopeNote", record.scopeNote)
         \cup NoteStatementsOf(record, "skos:historyNote", record.historyNote)
    ELSE {}

\* owl:deprecated true, only for a deprecated record
DeprecatedStatements(record) ==
    IF record.deprecated
    THEN {<<URIRef(record.uri), "owl:deprecated", BoolLiteral(TRUE)>>}
    ELSE {}

\* one wd:<key> statement per entry of record.webDeweyExtras
ExtraStatements(record) ==
    {<<URIRef(record.uri), record.webDeweyExtras[i][1],
       LangLiteral(record.webDeweyExtras[i][2], record.lang)>> :
        i \in 1..Len(record.webDeweyExtras)}

RECURSIVE ComponentLoop(_, _, _, _, _)
\* for component in record.components: a fresh node b2 per component, linked
\* from b1 by rdf:rest; the component's identifier is added as get_uri returns
\* it. The loop's result: the statements, the last node, the nodes allocated.
ComponentLoop(record, components, stmts, b1, bn) ==
    IF components = <<>>
    THEN [stmts |-> stmts, b1 |-> b1, bnodes |-> bn]
    ELSE LET component_uri == PlainStr(get_uri(record, Head(components)))
             b2 == BNode(bn + 1)
         IN  ComponentLoop(record, Tail(components),
                           stmts \cup {<<b1, "rdf:rest", b2>>, <<b2, "rdf:first", component_uri>>},
                           b2, bn + 1)

\* record.components after the call: pop(0) removes the first component from
\* the record's own list when the chain is built.
ComponentsAfterCall(record, options) ==
    IF options.include_components /\ Len(record.components) # 0
    THEN Tail(record.components)
    ELSE record.components

ComponentStatementsNoPop(record, options, bn) ==
    IF options.include_components /\ Len(record.components) # 0
    THEN LET component == Head(record.components)
             b1 == BNode(bn + 1)
             head == {<<URIRef(record.uri), "mads:componentList", b1>>,
                      <<b1, "rdf:first", URIRef(get_uri(record, component))>>}
             loop == ComponentLoop(record, record.components, head, b1, bn + 1)
         IN  [stmts |-> loop.stmts \cup {<<loop.b1, "rdf:rest", RDF_nil>>},
              bnodes |-> loop.bnodes]
    ELSE [stmts |-> {}, bnodes |-> bn]

\* The synthesized number components as a list of anonymous nodes.
\* The result: the statements and the number of nodes allocated so far.
ComponentStatements(record, options, bn) ==
    IF options.include_components /\ Len(record.components) # 0
    THEN LET component == Head(record.components)
             rest == Tail(record.components)
             component_uri == URIRef(get_uri(record, component))
             b1 == BNode(bn + 1)
             head == {<<URIRef(record.uri), "mads:componentList", b1>>,
                      <<b1, "rdf:first", component_uri>>}
             loop == ComponentLoop(record, rest, head, b1, bn + 1)
         IN  [stmts |-> loop.stmts \cup {<<loop.b1, "rdf:rest", RDF_nil>>},
              bnodes |-> loop.bnodes]
    ELSE [stmts |-> {}, bnodes |-> bn]

\* The statements one call of add_record_to_graph hands to graph.add.
RecordStatements(record, options, bn) ==
    TypeStatements(record)
    \cup SchemeStatements(record)
    \cup DateStatements(record)
    \cup NotationStatements(record)
    \cup PrefLabelStatements(record)
    \cup AltLabelStatements(record, options)
    \cup BroaderStatements(record)
    \cup NoteStatements(record, options)
    \cup DeprecatedStatements(record)
    \cup ComponentStatements(record, options, bn).stmts
    \cup ExtraStatements(record)

\* add_record_to_graph(graph, record, options): the graph, the record object
\* and the anonymous nodes allocated, after the call.
add_record_to_graph(g, record, options, bn) ==
    [graph |-> g \cup RecordStatements(record, options, bn),
     record |-> [record EXCEPT !.components = ComponentsAfterCall(record, options)],
     bnodes |-> ComponentStatements(record, options, bn).bnodes,
     added |-> RecordStatements(record, options, bn)]

\* ------------------------------------------------- process_record
\* Element(rec).text('mx:leader'): the leader's text, or None.
text_leader(raw) == raw.leader

\* ClassificationRecord(rec, kwargs): the normalized attributes of the record.
ClassificationRecord(raw, options) ==
    [f \in (DOMAIN raw) \ {"leader"} |-> raw[f]]

\* rec.is_public()
is_public(rec) == rec.public

\* leader[6] exists: a str shorter than 7 characters raises IndexError there.
LeaderIndexable(leader) == Len(leader) > MarkerPos

IsClassificationLeaderOffByOne(leader) == leader[MarkerPos] = "w"

\* leader[6] == 'w'  (w: classification, z: authority)
IsClassificationLeader(leader) == leader[MarkerPos + 1] = "w"

HasNoUriNever(rec) == FALSE

\* rec.uri is None
HasNoUri(rec) == rec.uri = None

ShouldAddAlways(rec) == TRUE

\* if rec.is_public(): add_record_to_graph(...)
ShouldAdd(rec) == is_public(rec)

\* process_record(graph, rec, **kwargs): the graph and the anonymous nodes
\* after the call, the exception it raised ("none": it returned) and why the
\* record was or was not added.
process_record(g, raw, options, bn) ==
    LET leader == text_leader(raw)
        unchanged == [graph |-> g, bnodes |-> bn, added |-> {}]
    IN  IF leader = None
        THEN unchanged @@ [exc |-> "InvalidRecordError", outcome |-> "no_leader"]
        ELSE IF ~LeaderIndexable(leader)
        THEN unchanged @@ [exc |-> "IndexError", outcome |-> "leader_too_short"]
        ELSE IF ~IsClassificationLeader(leader)
        THEN unchanged @@ [exc |-> "InvalidRecordError", outcome |-> "not_classification"]
        ELSE LET rec == ClassificationRecord(raw, options)
             IN  IF HasNoUri(rec)
                 THEN unchanged @@ [exc |-> "none", outcome |-> "no_uri"]
                 ELSE IF ShouldAdd(rec)
                 THEN LET r == add_record_to_graph(g, rec, options, bn)
                      IN  [graph |-> r.graph, bnodes |-> r.bnodes, added |-> r.added,
                           exc |-> "none", outcome |-> "added"]
                 ELSE unchanged @@ [exc |-> "none", outcome |-> "not_public"]

\* ------------------------------------------------- the inputs
U1 == <<"u", "1">>

U2 == <<"u", "2">>

S1 == <<"s", "1">>

S2 == <<"s", "2">>

ClassBase == <<"c", "/">>

ComponentNames == {<<"X">>, <<"Y">>}

SchemeNames == {S1, S2}

\* The attributes add_record_to_graph reads besides the ones the claims are
\* about: all absent, or all present.
BareDetail ==
    [created |-> None, modified |-> None, prefLabel |-> None, lang |-> "en",
     altLabel |-> <<>>, broader |-> <<>>, definition |-> <<>>, editorialNote |-> <<>>,
     scopeNote |-> <<>>, historyNote |-> <<>>, deprecated |-> FALSE,
     webDeweyExtras |-> <<>>]

RichDetail ==
    [created |-> <<"2015", "08", "31">>, modified |-> <<"2016", "02", "01">>,
     prefLabel |-> <<"A", "l", "g">>, lang |-> "en",
     altLabel |-> <<[term |-> <<"E", "q">>], [term |-> <<"N", "o">>]>>,
     broader |-> <<U2>>, definition |-> <<<<"d">>>>, editorialNote |-> <<<<"e">>>>,
     scopeNote |-> <<<<"s">>>>, historyNote |-> <<<<"h">>, <<"i">>>>, deprecated |-> TRUE,
     webDeweyExtras |-> <<<<"wd:ALR", <<"r">>>>, <<"wd:SUP", <<"p">>>>>>]

Notations == {None, <<>>, <<"5">>, <<"T", "5">>}

SchemeLists == {s \in SeqsUpTo(SchemeNames, MaxSchemes) : Len(s) >= 1}

ComponentLists == SeqsUpTo(ComponentNames, MaxComponents)

\* The normalized records add_record_to_graph is applied to (SpecBuilder).
BuilderRecords ==
    {core @@ detail :
        core \in [uri : {U1}, base_uri : {ClassBase}, public : {TRUE},
                  record_type : {TABLE_RECORD, SCHEDULE_RECORD},
                  notation : Notations, scheme_uris : SchemeLists,
                  is_top_concept : BOOLEAN, components : ComponentLists],
        detail \in {BareDetail, RichDetail}}

\* Leaders: absent, or k characters with the marker m at 1-based position at.
Leaders ==
    {None} \cup
    {[i \in 1..k |-> IF i = at THEN m ELSE "0"] :
        k \in MarkerPos..(MarkerPos + 2), at \in {MarkerPos, MarkerPos + 1}, m \in {"w", "z"}}

\* The record bodies of the input document (Spec).
DocBodies ==
    {[record_type |-> SCHEDULE_RECORD, notation |-> <<"5">>, scheme_uris |-> <<S1>>,
      is_top_concept |-> FALSE, components |-> <<>>] @@ BareDetail,
     [record_type |-> TABLE_RECORD, notation |-> <<"5">>, scheme_uris |-> <<S1, S2>>,
      is_top_concept |-> TRUE, components |-> <<<<"X">>, <<"Y">>>>] @@ RichDetail}

\* The raw records of the input document.
RawRecords ==
    {[leader |-> l, uri |-> u, base_uri |-> ClassBase, public |-> p] @@ body :
        l \in Leaders, u \in {None, U1, U2}, p \in BOOLEAN, body \in DocBodies}

OutFormats == {"turtle", "jskos", "ndjson", "xml"}

OutFiles == {None, <<"-">>, <<"o">>}

Options == [include_indexterms : BOOLEAN, include_notes : BOOLEAN, include_components : BOOLEAN]

\* ------------------------------------------------- state
VARIABLES
    pc,          \* main's position
    args,        \* the parsed arguments: outformat, outfile
    options,     \* the options dict handed to process_record
    n,           \* main's record counter
    cur,         \* the record get_records has yielded: <<>> or <<raw>>
    graph,       \* the statements of the graph
    bnodes,      \* anonymous nodes allocated so far
    in_opened,   \* the input document has been opened for parsing
    out_opened,  \* an output file has been opened
    serializer,  \* the serializer invoked, "none" if none
    warned,      \* 'RDF result is empty!' has been logged
    outcome,     \* what became of the last record processed
    added,       \* the statements the last add_record_to_graph call added
    rec,         \* the record object add_record_to_graph is applied to: <<>> or <<record>>
    before,      \* that record object as it was when the last call began
    calls        \* calls of add_record_to_graph on rec

vars == <<pc, args, options, n, cur, graph, bnodes, in_opened, out_opened,
          serializer, warned, outcome, added, rec, before, calls>>

mainVars == <<pc, args, n, cur, in_opened, out_opened, serializer, warned, outcome>>

\* ------------------------------------------------- main
SupportedFormatAny(f) == TRUE

\* args.outformat in ['turtle', 'jskos', 'ndjson']
SupportedFormat(f) == f \in {"turtle", "jskos", "ndjson"}

GraphIsEmptyNever(g) == FALSE

\* not graph
GraphIsEmpty(g) == g = {}

\* After argument parsing and Graph().
Init ==
    /\ pc = "start"
    /\ args \in [outformat : OutFormats, outfile : OutFiles]
    /\ options \in Options
    /\ n = 0
    /\ cur = <<>>
    /\ graph = {}
    /\ bnodes = 0
    /\ in_opened = FALSE
    /\ out_opened = FALSE
    /\ serializer = "none"
    /\ warned = FALSE
    /\ outcome = "none"
    /\ added = {}
    /\ rec = <<>>
    /\ before = <<>>
    /\ calls = 0

\* if args.outformat not in [...]: raise ValueError
CheckOutformat ==
    /\ pc = "start"
    /\ pc' = IF SupportedFormat(args.outformat) THEN "loop" ELSE "ValueError"
    /\ UNCHANGED <<args, options, n, cur, graph, bnodes, in_opened, out_opened,
                   serializer, warned, outcome, added, rec, before, calls>>

\* get_records yields the document's next record element.
GetRecord ==
    /\ pc = "loop"
    /\ n < MaxRecords
    /\ \E raw \in RawRecords : cur' = <<raw>>
    /\ in_opened' = TRUE
    /\ pc' = "process"
    /\ UNCHANGED <<args, options, n, graph, bnodes, out_opened, serializer, warned,
                   outcome, added, rec, before, calls>>

\* get_records is exhausted: the document holds no further record element.
EndOfRecords ==
    /\ pc = "loop"
    /\ in_opened' = TRUE
    /\ pc' = "after_loop"
    /\ UNCHANGED <<args, options, n, cur, graph, bnodes, out_opened, serializer, warned,
                   outcome, added, rec, before, calls>>

\* The body of main's loop: n += 1, process_record under try/except
\* InvalidRecordError; any other exception ends the run. The record element
\* is cleared when the generator resumes.
LoopBody ==
    /\ pc = "process"
    /\ LET r == process_record(graph, cur[1], options, bnodes)
       IN  /\ graph' = r.graph
           /\ bnodes' = r.bnodes
           /\ added' = r.added
           /\ outcome' = r.outcome
           /\ pc' = IF r.exc \in {"none", "InvalidRecordError"} THEN "loop" ELSE r.exc
    /\ n' = n + 1
    /\ cur' = <<>>
    /\ UNCHANGED <<args, options, in_opened, out_opened, serializer, warned,
                   rec, before, calls>>

\* if not graph: logger.warn('RDF result is empty!'); return
EmptyResult ==
    /\ pc = "after_loop"
    /\ GraphIsEmpty(graph)
    /\ warned' = TRUE
    /\ pc' = "done"
    /\ UNCHANGED <<args, options, n, cur, graph, bnodes, in_opened, out_opened,
                   serializer, outcome, added, rec, before, calls>>

\* The output file is opened (or stdout taken) and the graph serialized.
WriteOutput ==
    /\ pc = "after_loop"
    /\ ~GraphIsEmpty(graph)
    /\ out_opened' = (Truthy(args.outfile) /\ args.outfile # <<"-">>)
    /\ serializer' = IF args.outformat = "turtle" THEN "OrderedTurtleSerializer"
                     ELSE IF args.outformat \in {"jskos", "ndjson"} THEN "json_ld"
                     ELSE "none"
    /\ pc' = "done"
    /\ UNCHANGED <<args, options, n, cur, graph, bnodes, in_opened, warned,
                   outcome, added, rec, before, calls>>

Next ==
    \/ CheckOutformat
    \/ GetRecord
    \/ LoopBody
    \/ EndOfRecords
    \/ EmptyResult
    \/ WriteOutput

Spec == Init /\ [][Next]_vars

\* ------------------------------------------------- add_record_to_graph alone
\* One normalized record object and one options dict; the graph is empty.
InitBuilder ==
    /\ pc = "builder"
    /\ args = [outformat |-> "turtle", outfile |-> None]
    /\ options \in Options
    /\ n = 0
    /\ cur = <<>>
    /\ graph = {}
    /\ bnodes = 0
    /\ in_opened = FALSE
    /\ out_opened = FALSE
    /\ serializer = "none"
    /\ warned = FALSE
    /\ outcome = "none"
    /\ added = {}
    /\ \E r \in BuilderRecords : rec = <<r>>
    /\ before = <<>>
    /\ calls = 0

\* add_record_to_graph(graph, record, options) on the record object.
CallBuilder ==
    /\ pc = "builder"
    /\ calls < MaxCalls
    /\ LET r == add_record_to_graph(graph, rec[1], options, bnodes)
       IN  /\ graph' = r.graph
           /\ bnodes' = r.bnodes
           /\ added' = r.added
           /\ rec' = <<r.record>>
    /\ before' = rec
    /\ calls' = calls + 1
    /\ UNCHANGED <<mainVars, options>>

NextBuilder == CallBuilder

SpecBuilder == InitBuilder /\ [][NextBuilder]_vars

\* ------------------------------------------------- properties
\* The record being processed has a leader of at least 7 characters.
CurHasMarker ==
    /\ pc = "process"
    /\ cur[1].leader # None
    /\ Len(cur[1].leader) >= 7

\* The record being processed passes the leader validation.
CurIsClassification == CurHasMarker /\ cur[1].leader[7] = "w"

TypeStatementsIn(stmts) == {t \in stmts : t[2] = "rdf:type"}

MembershipStatementsIn(stmts) ==
    {t \in stmts : t[2] \in {"skos:inScheme", "skos:topConceptOf"}}

NotationStatementsIn(stmts) == {t \in stmts : t[2] = "skos:notation"}

\* C1: a record whose leader has a character at position 6 other than 'w' is
\* rejected as an invalid record (caught by main's loop, which goes on) and
\* the graph is the same after it as before.
C1_NonClassificationRejected ==
    [][(CurHasMarker /\ cur[1].leader[7] # "w")
        => (graph' = graph /\ outcome' = "not_classification" /\ pc' = "loop")]_vars

\* C1 witness: such a record has been rejected when the graph already held
\* statements of an earlier record.
C1_Witness == outcome = "not_classification" /\ graph # {} /\ n >= 2

\* C2: a record that passes leader validation and has no identifier adds
\* nothing to the graph, whatever its other fields and the inclusion flags.
C2_NoUriNoStatements ==
    [][(CurIsClassification /\ cur[1].uri = None)
        => (graph' = graph /\ added' = {} /\ bnodes' = bnodes
            /\ outcome' = "no_uri" /\ pc' = "loop")]_vars

\* C2 witness: a record without identifier was ignored under a run that
\* includes components, notes and index terms.
C2_Witness ==
    /\ outcome = "no_uri"
    /\ options.include_components /\ options.include_notes /\ options.include_indexterms

\* C3 (as claimed): a record whose leader is missing or shorter than 7
\* characters is rejected as an invalid record, main's loop catches it and
\* goes on to the next record.
C3_ShortLeaderSkipped ==
    [][(pc = "process" /\ (cur[1].leader = None \/ Len(cur[1].leader) < 7))
        => (pc' = "loop" /\ graph' = graph)]_vars

\* C5 (as claimed): a valid record with an identifier produces exactly one
\* type statement and exactly one scheme-membership statement. The claim is
\* read in its most favourable sense, of the records that are emitted (public
\* ones): C6 is about the others.
C5_ExactlyOneMembership ==
    [][(CurIsClassification /\ cur[1].uri # None /\ cur[1].public)
        => (/\ Cardinality(TypeStatementsIn(added')) = 1
            /\ Cardinality(MembershipStatementsIn(added')) = 1)]_vars

\* C5 (amended): a valid, public record with an identifier produces exactly
\* one type statement and one scheme-membership statement per distinct entry
\* of its scheme_uris, with skos:topConceptOf for a top concept and
\* skos:inScheme otherwise; so exactly one for a record of one scheme.
C5_OneMembershipPerScheme ==
    [][(CurIsClassification /\ cur[1].uri # None /\ cur[1].public)
        => (/\ TypeStatementsIn(added') = {<<URIRef(cur[1].uri), "rdf:type", SKOS_Concept>>}
            /\ MembershipStatementsIn(added') =
                 {<<URIRef(cur[1].uri),
                    IF cur[1].is_top_concept THEN "skos:topConceptOf" ELSE "skos:inScheme",
                    URIRef(s)>> : s \in Range(cur[1].scheme_uris)}
            /\ Cardinality(MembershipStatementsIn(added'))
                 = Cardinality(Range(cur[1].scheme_uris))
            /\ added' \subseteq graph')]_vars

\* C5 witness: a top concept of two schemes has been added.
C5_Witness ==
    /\ outcome = "added"
    /\ Cardinality({t \in added : t[2] = "skos:topConceptOf"}) = 2
    /\ Cardinality(TypeStatementsIn(added)) = 1

\* C6: a valid record with an identifier that is not public adds nothing to
\* the graph, for every configuration of the inclusion flags.
C6_NotPublicNoStatements ==
    [][(CurIsClassification /\ cur[1].uri # None /\ ~cur[1].public)
        => (graph' = graph /\ added' = {} /\ bnodes' = bnodes
            /\ outcome' = "not_public" /\ pc' = "loop")]_vars

\* C6 witness: a non-public record was passed over after a public one was added.
C6_Witness == outcome = "not_public" /\ graph # {}

\* C8: when main has returned with an empty graph it has warned, has opened no
\* output file and has invoked no serializer; a serializer is invoked only on
\* a graph of at least one statement, and the warning is given only for an
\* empty graph.
C8_EmptyGraphNotSerialized ==
    /\ (pc = "done" /\ graph = {}) => (warned /\ ~out_opened /\ serializer = "none")
    /\ (serializer # "none" \/ out_opened) => (graph # {} /\ ~warned)
    /\ warned => graph = {}

\* C8 witness: a run over a document whose records were all passed over, with
\* an output file named, has ended with the warning.
C8_Witness ==
    /\ pc = "done" /\ warned /\ n >= 1
    /\ args.outfile = <<"o">>

\* C9: with an outformat other than turtle, jskos and ndjson, main never gets
\* past the format check: the input is not opened, no record is read and
\* nothing is written.
C9_UnsupportedFormatAborts ==
    (args.outformat \notin {"turtle", "jskos", "ndjson"})
        => (/\ pc \in {"start", "ValueError"}
            /\ ~in_opened /\ n = 0 /\ cur = <<>>
            /\ ~out_opened /\ serializer = "none" /\ graph = {})

\* C9 witness: main has ended with the ValueError.
C9_Witness == pc = "ValueError" /\ args.outformat = "xml"

\* C7: a record with a non-empty notation v gets exactly one notation
\* statement, whose literal is 'T' followed by v for a table record and v
\* itself otherwise; a record without notation gets none.
C7_NotationPrefix ==
    (pc = "builder" /\ calls >= 1)
        => LET r == before[1]
               v == r.notation
           IN  NotationStatementsIn(added) =
                 IF v = None \/ v = <<>> THEN {}
                 ELSE {<<URIRef(r.uri), "skos:notation",
                         Literal(IF r.record_type = TABLE_RECORD THEN <<"T">> \o v ELSE v)>>}

\* C7 witness: a table record with notation 5 has been given the literal T5.
C7_Witness ==
    /\ pc = "builder" /\ calls >= 1
    /\ before[1].record_type = TABLE_RECORD
    /\ <<URIRef(before[1].uri), "skos:notation", Literal(<<"T", "5">>)>> \in added

\* The identifier string a term carries, whether it was added as an
\* identifier node or as the bare string get_uri returned.
IdentifierOf(term) == term[2]

\* The chain of anonymous nodes in stmts, for the components cs of record r:
\* one componentList statement from the record to the first node, Len(cs)
\* distinct nodes and no other anonymous node, the i-th with the identifier of
\* the i-th component as its only rdf:first and the next node (rdf:nil for
\* the last) as its only rdf:rest.
ChainOf(stmts, r, cs) ==
    LET nodes == {t[1] : t \in {u \in stmts : u[1][1] = "bnode"}}
        Objects(node, predicate) ==
            {t[3] : t \in {u \in stmts : u[1] = node /\ u[2] = predicate}}
    IN  \E f \in [1..Len(cs) -> nodes] :
            /\ \A i, j \in 1..Len(cs) : f[i] = f[j] => i = j
            /\ nodes = {f[i] : i \in 1..Len(cs)}
            /\ {t \in stmts : t[2] = "mads:componentList"}
                 = {<<URIRef(r.uri), "mads:componentList", f[1]>>}
            /\ \A i \in 1..Len(cs) :
                 /\ Cardinality(Objects(f[i], "rdf:first")) = 1
                 /\ \A o \in Objects(f[i], "rdf:first") :
                        /\ o[1] \in {"uri", "str"}
                        /\ IdentifierOf(o) = get_uri(r, cs[i])
                 /\ Objects(f[i], "rdf:rest")
                      = {IF i < Len(cs) THEN f[i + 1] ELSE RDF_nil}

\* The last call built a chain: components were included and the record had some.
ChainBuilt ==
    /\ pc = "builder" /\ calls >= 1
    /\ options.include_components
    /\ Len(before[1].components) >= 1

C10_RecordUnchanged ==
    (pc = "builder" /\ calls >= 1) => rec[1].components = before[1].components

====
